---- MODULE Spec2Model ----
(***************************************************************************)
(* Model of the elevator dispatch engine: the Elevator car (job queues,    *)
(* movement, boarding pause, time-to-fulfil estimate) and the              *)
(* ElevatorSystem (pending requests, clock, tick with its matching pass).  *)
(***************************************************************************)
EXTENDS Integers, Sequences, FiniteSets

\* ------------------------------------------------------------------------
\* Program constants
\* ------------------------------------------------------------------------
NUMBER_OF_FLOORS == 10

BOARDING_TIME == 2

\* ------------------------------------------------------------------------
\* Bounds of the exploration
\* ------------------------------------------------------------------------
\* callElevator and accepted goToFloor calls together per behaviour
MaxInputs == 2

\* the clock stops here
MaxTime == 4

\* no call is made after this time when serving is observed
ServeDeadline == 3

\* the clock stops here when serving is observed
ServeHorizon == 30

\* Fleet sizes offered to the constructor.
ElevatorCounts == {1, 2}

\* Floors offered to callElevator (0 is below the building).
CallFloors == {0, 1, 3}

\* Floors offered to goToFloor (11 is above the building).
PressFloors == {2, 5, 9, 10, 11}

\* Car ids offered to goToFloor.
PressIds == {1, 2}

\* (id, floor) pairs offered to goToFloor: every pair of the above, and one
\* with the id of no car.
PressInputs == (PressIds \X PressFloors) \cup {<<3, 5>>}

\* Arguments offered to tick.
TickArgs == {1, 2}

TravelDirection == {"Up", "Down"}

VARIABLES
    floorCount,    \* ElevatorSystem._floorCount
    elevators,     \* ElevatorSystem._elevators: sequence of car records
    requests,      \* ElevatorSystem._requests: sequence of [floor, direction]
    time,          \* ElevatorSystem._time
    raised,        \* TRUE iff the last call ended in a thrown Error
    lastOp,        \* the last method called on the system
    callCount,     \* number of callElevator calls made so far
    pressCount,    \* number of goToFloor calls accepted so far
    arrivalPause,  \* per car: system ticks left of the BOARDING_TIME ticks
                   \* that follow its last arrival at a queued floor
    holdPause      \* per car: system ticks left of the BOARDING_TIME ticks
                   \* that follow the last hold() on it

vars == <<floorCount, elevators, requests, time, raised, lastOp, callCount,
          pressCount, arrivalPause, holdPause>>

\* ------------------------------------------------------------------------
\* Helpers
\* ------------------------------------------------------------------------
Abs(x) == IF x < 0 THEN -x ELSE x

Min(a, b) == IF a < b THEN a ELSE b

Max(a, b) == IF a > b THEN a ELSE b

\* Number.prototype.toString for a non-negative integer: its decimal digits.
RECURSIVE NumberToString(_)
NumberToString(n) == IF n < 10 THEN <<n>> ELSE Append(NumberToString(n \div 10), n % 10)

\* Comparison of two digit strings by code units, as the default
\* comparator of Array.prototype.sort does: TRUE iff a sorts before b.
RECURSIVE StringLess(_, _)
StringLess(a, b) ==
    IF a = <<>> THEN b # <<>>
    ELSE IF b = <<>> THEN FALSE
    ELSE IF Head(a) # Head(b) THEN Head(a) < Head(b)
    ELSE StringLess(Tail(a), Tail(b))

\* The default comparator of Array.prototype.sort: elements are compared
\* by their string conversions.
DefaultBefore(a, b) == StringLess(NumberToString(a), NumberToString(b))

\* The comparator (a, b) => b - a: a goes first iff the result is negative.
DescendingBefore(a, b) == b - a < 0

\* Stable insertion of x into a sequence sorted by the default comparator.
RECURSIVE InsertDefault(_, _)
InsertDefault(s, x) ==
    IF s = <<>> THEN <<x>>
    ELSE IF DefaultBefore(x, Head(s)) THEN <<x>> \o s
    ELSE <<Head(s)>> \o InsertDefault(Tail(s), x)

\* Stable insertion of x into a sequence sorted by the descending comparator.
RECURSIVE InsertDescending(_, _)
InsertDescending(s, x) ==
    IF s = <<>> THEN <<x>>
    ELSE IF DescendingBefore(x, Head(s)) THEN <<x>> \o s
    ELSE <<Head(s)>> \o InsertDescending(Tail(s), x)

\* jobs.sort(): no comparator (stable).
RECURSIVE SortUp(_)
SortUp(s) ==
    IF s = <<>> THEN <<>>
    ELSE InsertDefault(SortUp(SubSeq(s, 1, Len(s) - 1)), s[Len(s)])

\* jobs.sort((a, b) => b - a) (stable).
RECURSIVE SortDown(_)
SortDown(s) ==
    IF s = <<>> THEN <<>>
    ELSE InsertDescending(SortDown(SubSeq(s, 1, Len(s) - 1)), s[Len(s)])

\* ------------------------------------------------------------------------
\* Elevator
\* ------------------------------------------------------------------------
NewElevator(id, currentFloor) ==
    [id |-> id,
     currentFloor |-> currentFloor,
     jobs |-> [Up |-> <<>>, Down |-> <<>>],
     travelDirection |-> "None",
     boardingCountdown |-> 0]

OtherDirection(d) == IF d = "Up" THEN "Down" ELSE "Up"

\* _lastStopForDirection(direction) ?? currentFloor
LastStopForDirection(e, direction) ==
    LET jobs == e.jobs[direction]
    IN IF Len(jobs) > 0 THEN jobs[Len(jobs)] ELSE e.currentFloor

\* The loop of _travelTimeInDirection from index i (1-based) with the
\* accumulated time t.
RECURSIVE TravelLoop(_, _, _, _, _)
TravelLoop(stops, toFloor, shouldAttemptToStop, i, t) ==
    IF i > Len(stops) - 1 THEN [time |-> t, stopOnTheWay |-> FALSE]
    ELSE LET lower == Min(stops[i], stops[i + 1])
             higher == Max(stops[i], stops[i + 1])
         IN IF shouldAttemptToStop /\ lower >= toFloor /\ higher <= toFloor
            THEN [time |-> t + Abs(stops[i] - toFloor), stopOnTheWay |-> TRUE]
            ELSE TravelLoop(stops, toFloor, shouldAttemptToStop, i + 1,
                            t + Abs(stops[i] - toFloor) + BOARDING_TIME)

TravelTimeInDirection(e, fromFloor, toFloor, direction, shouldAttemptToStop) ==
    TravelLoop(<<fromFloor>> \o e.jobs[direction], toFloor, shouldAttemptToStop, 1, 0)

\* Variant of the estimate that counts the boarding countdown of an idle car.
GetTimeToFulfillRequestCountsBoarding(e, toFloor, direction) ==
    e.boardingCountdown + Abs(toFloor - e.currentFloor)

GetTimeToFulfillRequest(e, toFloor, direction) ==
    IF e.travelDirection = "None" THEN Abs(toFloor - e.currentFloor)
    ELSE
      LET tryCurrentDirection ==
              TravelTimeInDirection(e, e.currentFloor, toFloor, e.travelDirection,
                                    e.travelDirection = direction)
          otherDirection == OtherDirection(e.travelDirection)
          tryOtherDirection ==
              TravelTimeInDirection(e, LastStopForDirection(e, e.travelDirection),
                                    toFloor, otherDirection, otherDirection = direction)
      IN IF tryCurrentDirection.stopOnTheWay
         THEN e.boardingCountdown + tryCurrentDirection.time
         ELSE IF tryOtherDirection.stopOnTheWay
         THEN e.boardingCountdown + tryCurrentDirection.time + tryOtherDirection.time
         ELSE e.boardingCountdown + tryCurrentDirection.time + tryOtherDirection.time
              + Abs(toFloor - e.currentFloor)

\* Variant of the range check of Elevator.goToFloor without the upper limit.
ElevatorGoToFloorThrowsBelowOnly(fc, toFloor) == toFloor < 1

\* Elevator.goToFloor throws iff the floor is outside 1..floorCount.
ElevatorGoToFloorThrows(fc, toFloor) == toFloor < 1 \/ toFloor > fc

\* Variant of Elevator.goToFloor that takes the car's own floor for a floor
\* above it.
ElevatorGoToFloorByComparison(e, toFloor) ==
    LET direction == IF toFloor >= e.currentFloor THEN "Up" ELSE "Down"
        pushed == Append(e.jobs[direction], toFloor)
        sorted == IF direction = "Up" THEN SortUp(pushed) ELSE SortDown(pushed)
    IN [e EXCEPT !.jobs[direction] = sorted,
                 !.travelDirection =
                     IF e.travelDirection = "None" THEN direction
                     ELSE e.travelDirection]

\* Elevator.goToFloor for an accepted floor: the car afterwards.
ElevatorGoToFloor(e, toFloor) ==
    LET direction == IF toFloor = e.currentFloor THEN e.travelDirection
                     ELSE IF toFloor > e.currentFloor THEN "Up" ELSE "Down"
    IN IF direction = "None" THEN e
       ELSE LET pushed == Append(e.jobs[direction], toFloor)
                sorted == IF direction = "Up" THEN SortUp(pushed) ELSE SortDown(pushed)
            IN [e EXCEPT !.jobs[direction] = sorted,
                         !.travelDirection =
                             IF e.travelDirection = "None" THEN direction
                             ELSE e.travelDirection]

\* Variant of the arrival loop that removes the head entry alone.
PopLeadingOne(jobs, floor) == Tail(jobs)

\* while (jobs.length > 0 && currentFloor === jobs[0]) jobs.splice(0, 1)
RECURSIVE PopLeading(_, _)
PopLeading(jobs, floor) ==
    IF Len(jobs) > 0 /\ Head(jobs) = floor THEN PopLeading(Tail(jobs), floor) ELSE jobs

\* Variant of the direction update that keeps the direction.
DirectionAfterBoardingKeeps(e) == e.travelDirection

\* Variant of the direction update that always reverses.
DirectionAfterBoardingAlwaysReverse(e) == OtherDirection(e.travelDirection)

\* The direction a car takes when its boarding countdown reaches 0.
DirectionAfterBoarding(e) ==
    LET otherDirection == OtherDirection(e.travelDirection)
    IN IF Len(e.jobs[otherDirection]) = 0 THEN "None" ELSE otherDirection

\* Variant of Elevator.tick whose arrival does not start the boarding pause.
ElevatorTickUnpausedArrival(e) ==
    IF e.boardingCountdown > 0
    THEN LET cd == e.boardingCountdown - 1
         IN IF cd = 0 /\ e.travelDirection # "None"
            THEN [e EXCEPT !.boardingCountdown = cd,
                           !.travelDirection = DirectionAfterBoarding(e)]
            ELSE [e EXCEPT !.boardingCountdown = cd]
    ELSE IF e.travelDirection = "None" THEN e
    ELSE LET jobs == e.jobs[e.travelDirection]
         IN IF Len(jobs) > 0
            THEN LET floor == IF e.currentFloor < jobs[1] THEN e.currentFloor + 1
                              ELSE IF e.currentFloor > jobs[1] THEN e.currentFloor - 1
                              ELSE e.currentFloor
                 IN IF floor = jobs[1]
                    THEN [e EXCEPT !.currentFloor = floor,
                                   !.jobs[e.travelDirection] = PopLeading(jobs, floor)]
                    ELSE [e EXCEPT !.currentFloor = floor]
            ELSE e

\* Elevator.tick: the car afterwards.
ElevatorTick(e) ==
    IF e.boardingCountdown > 0
    THEN LET cd == e.boardingCountdown - 1
         IN IF cd = 0 /\ e.travelDirection # "None"
            THEN [e EXCEPT !.boardingCountdown = cd,
                           !.travelDirection = DirectionAfterBoarding(e)]
            ELSE [e EXCEPT !.boardingCountdown = cd]
    ELSE IF e.travelDirection = "None" THEN e
    ELSE LET jobs == e.jobs[e.travelDirection]
         IN IF Len(jobs) > 0
            THEN LET floor == IF e.currentFloor < jobs[1] THEN e.currentFloor + 1
                              ELSE IF e.currentFloor > jobs[1] THEN e.currentFloor - 1
                              ELSE e.currentFloor
                 IN IF floor = jobs[1]
                    THEN [e EXCEPT !.currentFloor = floor,
                                   !.jobs[e.travelDirection] = PopLeading(jobs, floor),
                                   !.boardingCountdown = BOARDING_TIME]
                    ELSE [e EXCEPT !.currentFloor = floor]
            ELSE e

\* TRUE iff Elevator.tick took the car e to the head of its queue (the
\* "arrived at floor" branch), leaving it as after.
Arrived(e, after) ==
    /\ e.boardingCountdown = 0
    /\ e.travelDirection # "None"
    /\ Len(e.jobs[e.travelDirection]) > 0
    /\ after.currentFloor = e.jobs[e.travelDirection][1]

\* The value ElevatorSystem.tick reads from Elevator.tick(): the method is
\* declared void, so the caller always sees undefined (falsy).
DidMove(before, after) == FALSE

\* Variant of moveCloserToFloor without the test of travelDirection.
MoveCloserToFloorAnyDirection(e, floor) ==
    IF floor = e.currentFloor THEN e
    ELSE [e EXCEPT !.currentFloor = e.currentFloor + (IF floor > e.currentFloor THEN 1 ELSE -1)]

\* Variant of moveCloserToFloor that leaves the car where it is.
MoveCloserToFloorStays(e, floor) == e

MoveCloserToFloor(e, floor) ==
    IF e.travelDirection # "None" THEN e
    ELSE IF floor = e.currentFloor THEN e
    ELSE [e EXCEPT !.currentFloor = e.currentFloor + (IF floor > e.currentFloor THEN 1 ELSE -1)]

\* Variant of hold() that leaves the countdown alone.
HoldWithoutPause(e) == e

Hold(e) == [e EXCEPT !.boardingCountdown = BOARDING_TIME]

\* ------------------------------------------------------------------------
\* ElevatorSystem
\* ------------------------------------------------------------------------
\* Variant of the choice of the best car that takes the last car of those
\* with the least estimate.
BestElevatorLastOfTies(els, request) ==
    LET cost(i) == GetTimeToFulfillRequest(els[i], request.floor, request.direction)
    IN CHOOSE i \in 1..Len(els) :
           \A j \in 1..Len(els) : cost(i) < cost(j) \/ (cost(i) = cost(j) /\ i >= j)

\* costs.sort((a, b) => a.cost - b.cost)[0]: index of the first car with the
\* least estimate (the sort is stable).
BestElevator(els, request) ==
    LET cost(i) == GetTimeToFulfillRequest(els[i], request.floor, request.direction)
    IN CHOOSE i \in 1..Len(els) :
           \A j \in 1..Len(els) : cost(i) < cost(j) \/ (cost(i) = cost(j) /\ i <= j)

\* Variant of the fulfilment block that removes the request and does not
\* call hold().
FulfilWithoutHold(st, request, w) ==
    IF GetTimeToFulfillRequest(st.elevators[w], request.floor, request.direction) = 0
    THEN [st EXCEPT !.requests = SubSeq(@, 1, st.i - 1) \o SubSeq(@, st.i + 1, Len(@)),
                    !.i = @ - 1]
    ELSE st

\* Variant of the fulfilment block without the i-- after the splice.
FulfilWithoutIndexAdjust(st, request, w) ==
    IF GetTimeToFulfillRequest(st.elevators[w], request.floor, request.direction) = 0
    THEN [st EXCEPT !.requests = SubSeq(@, 1, st.i - 1) \o SubSeq(@, st.i + 1, Len(@)),
                    !.elevators[w] = Hold(@),
                    !.held = @ \cup {w}]
    ELSE st

\* Variant of the fulfilment block that also fulfils at estimate 1.
FulfilWithinOne(st, request, w) ==
    IF GetTimeToFulfillRequest(st.elevators[w], request.floor, request.direction) <= 1
    THEN [st EXCEPT !.requests = SubSeq(@, 1, st.i - 1) \o SubSeq(@, st.i + 1, Len(@)),
                    !.i = @ - 1,
                    !.elevators[w] = Hold(@),
                    !.held = @ \cup {w}]
    ELSE st

\* The loop state st (elevators, requests, moved, the index i of the request
\* under evaluation, and held: the cars hold() was called on) after the
\* block "if (costs[0].cost === 0) { ... }" for the best car w.
Fulfil(st, request, w) ==
    IF GetTimeToFulfillRequest(st.elevators[w], request.floor, request.direction) = 0
    THEN [st EXCEPT !.requests = SubSeq(@, 1, st.i - 1) \o SubSeq(@, st.i + 1, Len(@)),
                    !.i = @ - 1,
                    !.elevators[w] = Hold(@),
                    !.held = @ \cup {w}]
    ELSE st

\* Variant of the nudge block that records a car in moved only when the
\* nudge changed its floor.
NudgeBestMarksRealMoves(st, request, w) ==
    IF st.elevators[w].travelDirection = "None" /\ st.elevators[w].id \notin st.moved
    THEN [st EXCEPT !.elevators[w] = MoveCloserToFloor(@, request.floor),
                    !.moved = IF request.floor = st.elevators[w].currentFloor
                              THEN @ ELSE @ \cup {st.elevators[w].id}]
    ELSE st

\* Variant of the nudge block without the test of moved.
NudgeBestAlways(st, request, w) ==
    IF st.elevators[w].travelDirection = "None"
    THEN [st EXCEPT !.elevators[w] = MoveCloserToFloor(@, request.floor),
                    !.moved = @ \cup {st.elevators[w].id}]
    ELSE st

\* The loop state after the block "if (costs[0].elevator.travelDirection ===
\* 'None' && moved.every(...)) { ... }" for the best car w.
NudgeBest(st, request, w) ==
    IF st.elevators[w].travelDirection = "None" /\ st.elevators[w].id \notin st.moved
    THEN [st EXCEPT !.elevators[w] = MoveCloserToFloor(@, request.floor),
                    !.moved = @ \cup {st.elevators[w].id}]
    ELSE st

\* The loop state done that the body of the request loop made of st, after
\* the i++ that follows the body, with a record of the iteration appended
\* to the log: the request, the best car w, the cars as they were when the
\* request was evaluated and as the body left them, and whether the request
\* was removed.
Logged(st, done, request, w) ==
    [done EXCEPT !.i = @ + 1,
                 !.log = Append(@, [request |-> request,
                                    winner |-> w,
                                    before |-> st.elevators,
                                    after |-> done.elevators,
                                    removed |-> Len(done.requests) < Len(st.requests)])]

\* The body of the request loop for the request and its best car w, and the
\* i++ that follows it.
MatchRequest(st, request, w) ==
    Logged(st, NudgeBest(Fulfil(st, request, w), request, w), request, w)

\* One iteration of the request loop, for the request at index st.i.
MatchOne(st) ==
    MatchRequest(st, st.requests[st.i], BestElevator(st.elevators, st.requests[st.i]))

\* for (let i = 0; i < this._requests.length; i++) { ... }
RECURSIVE MatchLoop(_)
MatchLoop(st) ==
    IF st.i > Len(st.requests) THEN st ELSE MatchLoop(MatchOne(st))

\* The pause counters after one system tick.
PauseAfter(pause, started) ==
    [i \in DOMAIN pause |->
        IF i \in started THEN BOARDING_TIME
        ELSE IF pause[i] > 0 THEN pause[i] - 1 ELSE 0]

\* Variant of the iteration that runs the matching pass on the cars as
\* they were and Car.tick on every car afterwards.
TickOnceMatchFirst(sys) ==
    LET n == Len(sys.elevators)
        done == MatchLoop([elevators |-> sys.elevators, requests |-> sys.requests,
                           moved |-> {}, i |-> 1, held |-> {}, log |-> <<>>])
    IN [elevators |-> [i \in 1..n |-> ElevatorTick(done.elevators[i])],
        log |-> done.log,
        requests |-> done.requests,
        time |-> sys.time + 1,
        arrivalPause |-> PauseAfter(sys.arrivalPause, {}),
        holdPause |-> PauseAfter(sys.holdPause, done.held)]

\* One iteration of the outer loop of ElevatorSystem.tick.
TickOnce(sys) ==
    LET n == Len(sys.elevators)
        ticked == [i \in 1..n |-> ElevatorTick(sys.elevators[i])]
        moved == {ticked[i].id : i \in {j \in 1..n : DidMove(sys.elevators[j], ticked[j])}}
        done == MatchLoop([elevators |-> ticked, requests |-> sys.requests,
                           moved |-> moved, i |-> 1, held |-> {}, log |-> <<>>])
    IN [elevators |-> done.elevators,
        log |-> done.log,
        requests |-> done.requests,
        time |-> sys.time + 1,
        arrivalPause |-> PauseAfter(sys.arrivalPause,
                                    {i \in 1..n : Arrived(sys.elevators[i], ticked[i])}),
        holdPause |-> PauseAfter(sys.holdPause, done.held)]

\* Variant of the outer loop of tick that runs one iteration whatever the
\* argument.
TickTimesOnce(sys, n) == TickOnce(sys)

\* for (let i = 0; i < ticks; i++) { ... }
RECURSIVE TickTimes(_, _)
TickTimes(sys, n) == IF n <= 0 THEN sys ELSE TickTimes(TickOnce(sys), n - 1)

\* get currentState()
CurrentState(sys) ==
    [elevatorsCurrentFloors |->
         [i \in 1..Len(sys.elevators) |->
             [id |-> sys.elevators[i].id, floor |-> sys.elevators[i].currentFloor]],
     floorCount |-> sys.floorCount,
     time |-> sys.time,
     requests |-> sys.requests]

\* The constructor called by fromSavedState throws for an empty fleet or a
\* building without floors.
FromSavedStateThrows(state) ==
    Len(state.elevatorsCurrentFloors) < 1 \/ state.floorCount < 1

\* Variant of fromSavedState that leaves every car at the constructor's
\* default floor.
FromSavedStateDefaultFloor(state) ==
    [floorCount |-> state.floorCount,
     elevators |-> [i \in 1..Len(state.elevatorsCurrentFloors) |->
                       NewElevator(state.elevatorsCurrentFloors[i].id, 1)],
     time |-> state.time,
     requests |-> state.requests]

\* ElevatorSystem.fromSavedState for a state it accepts: the new system.
FromSavedState(state) ==
    [floorCount |-> state.floorCount,
     elevators |-> [i \in 1..Len(state.elevatorsCurrentFloors) |->
                       NewElevator(state.elevatorsCurrentFloors[i].id,
                                   state.elevatorsCurrentFloors[i].floor)],
     time |-> state.time,
     requests |-> state.requests]

\* ------------------------------------------------------------------------
\* Specification
\* ------------------------------------------------------------------------
\* new ElevatorSystem(floorCount, elevatorCount)
Init ==
    /\ floorCount = NUMBER_OF_FLOORS
    /\ \E elevatorCount \in ElevatorCounts :
           /\ elevators = [i \in 1..elevatorCount |-> NewElevator(i, 1)]
           /\ arrivalPause = [i \in 1..elevatorCount |-> 0]
           /\ holdPause = [i \in 1..elevatorCount |-> 0]
    /\ requests = <<>>
    /\ time = 0
    /\ raised = FALSE
    /\ lastOp = "constructor"
    /\ callCount = 0
    /\ pressCount = 0

\* Variant of callElevator that puts the request in front.
CallElevatorPrepends(toFloor, direction) ==
    /\ callCount + pressCount < MaxInputs
    /\ requests' = <<[floor |-> toFloor, direction |-> direction]>> \o requests
    /\ raised' = FALSE
    /\ lastOp' = "callElevator"
    /\ callCount' = callCount + 1
    /\ UNCHANGED <<floorCount, elevators, time, pressCount, arrivalPause, holdPause>>

\* ElevatorSystem.callElevator
CallElevator(toFloor, direction) ==
    /\ callCount + pressCount < MaxInputs
    /\ requests' = Append(requests, [floor |-> toFloor, direction |-> direction])
    /\ raised' = FALSE
    /\ lastOp' = "callElevator"
    /\ callCount' = callCount + 1
    /\ UNCHANGED <<floorCount, elevators, time, pressCount, arrivalPause, holdPause>>

\* Variant of ElevatorSystem.goToFloor that hands the floor to the first car
\* of the fleet.
GoToFloorFirstCar(elevatorId, toFloor) ==
    LET found == {i \in 1..Len(elevators) : elevators[i].id = elevatorId}
    IN IF found = {} \/ ElevatorGoToFloorThrows(floorCount, toFloor)
       THEN /\ raised' = TRUE
            /\ lastOp' = "goToFloor"
            /\ UNCHANGED <<floorCount, elevators, requests, time, callCount,
                           pressCount, arrivalPause, holdPause>>
       ELSE /\ callCount + pressCount < MaxInputs
            /\ elevators' = [elevators EXCEPT ![1] = ElevatorGoToFloor(@, toFloor)]
            /\ raised' = FALSE
            /\ lastOp' = "goToFloor"
            /\ pressCount' = pressCount + 1
            /\ UNCHANGED <<floorCount, requests, time, callCount, arrivalPause, holdPause>>

\* ElevatorSystem.goToFloor: throws for an unknown id or a rejected floor.
GoToFloor(elevatorId, toFloor) ==
    LET found == {i \in 1..Len(elevators) : elevators[i].id = elevatorId}
    IN IF found = {} \/ ElevatorGoToFloorThrows(floorCount, toFloor)
       THEN /\ raised' = TRUE
            /\ lastOp' = "goToFloor"
            /\ UNCHANGED <<floorCount, elevators, requests, time, callCount,
                           pressCount, arrivalPause, holdPause>>
       ELSE LET i == CHOOSE k \in found : \A m \in found : k <= m
            IN /\ callCount + pressCount < MaxInputs
               /\ elevators' = [elevators EXCEPT ![i] = ElevatorGoToFloor(@, toFloor)]
               /\ raised' = FALSE
               /\ lastOp' = "goToFloor"
               /\ pressCount' = pressCount + 1
               /\ UNCHANGED <<floorCount, requests, time, callCount, arrivalPause, holdPause>>

\* ElevatorSystem.tick(ticks)
TickBody(ticks) ==
    /\ LET done == TickTimes([elevators |-> elevators, requests |-> requests,
                              time |-> time, arrivalPause |-> arrivalPause,
                              holdPause |-> holdPause], ticks)
       IN /\ elevators' = done.elevators
          /\ requests' = done.requests
          /\ time' = done.time
          /\ arrivalPause' = done.arrivalPause
          /\ holdPause' = done.holdPause
    /\ raised' = FALSE
    /\ lastOp' = "tick"
    /\ UNCHANGED <<floorCount, callCount, pressCount>>

\* The system as the record TickOnce and currentState work on.
System ==
    [floorCount |-> floorCount, elevators |-> elevators, requests |-> requests,
     time |-> time, arrivalPause |-> arrivalPause, holdPause |-> holdPause]

\* sys = ElevatorSystem.fromSavedState(sys.currentState)
SaveAndRestore ==
    /\ ~FromSavedStateThrows(CurrentState(System))
    /\ floorCount' = FromSavedState(CurrentState(System)).floorCount
    /\ elevators' = FromSavedState(CurrentState(System)).elevators
    /\ requests' = FromSavedState(CurrentState(System)).requests
    /\ time' = FromSavedState(CurrentState(System)).time
    /\ arrivalPause' = [i \in DOMAIN arrivalPause |-> 0]
    /\ holdPause' = [i \in DOMAIN holdPause |-> 0]
    /\ raised' = FALSE
    /\ lastOp' = "fromSavedState"
    /\ UNCHANGED <<callCount, pressCount>>

\* tick(ticks) while the clock is below its bound.
Tick(ticks) == time + ticks <= MaxTime /\ TickBody(ticks)

Next ==
    \/ \E f \in CallFloors, d \in TravelDirection : CallElevator(f, d)
    \/ \E p \in PressInputs : GoToFloor(p[1], p[2])
    \/ \E n \in TickArgs : Tick(n)

Spec == Init /\ [][Next]_vars

\* The same system when every callElevator floor is a floor of the building.
NextValidCalls ==
    \/ \E f \in {g \in CallFloors : g >= 1 /\ g <= floorCount}, d \in TravelDirection :
           CallElevator(f, d)
    \/ \E p \in PressInputs : GoToFloor(p[1], p[2])
    \/ \E n \in TickArgs : Tick(n)

SpecValidCalls == Init /\ [][NextValidCalls]_vars

\* The same system with valid calls when every call is made up to time
\* ServeDeadline and ticks go on up to time ServeHorizon.
NextServe ==
    \/ \E f \in {g \in CallFloors : g >= 1 /\ g <= floorCount}, d \in TravelDirection :
           time <= ServeDeadline /\ CallElevator(f, d)
    \/ \E p \in PressInputs : time <= ServeDeadline /\ GoToFloor(p[1], p[2])
    \/ \E n \in TickArgs : time + n <= ServeHorizon /\ TickBody(n)

SpecServe == Init /\ [][NextServe]_vars

\* The system when it may also be saved and restored between calls.
NextSnapshot ==
    \/ \E f \in CallFloors, d \in TravelDirection : CallElevator(f, d)
    \/ \E p \in PressInputs : GoToFloor(p[1], p[2])
    \/ \E n \in TickArgs : Tick(n)
    \/ SaveAndRestore

SpecSnapshot == Init /\ [][NextSnapshot]_vars

\* ------------------------------------------------------------------------
\* Properties
\* ------------------------------------------------------------------------
Cars == DOMAIN elevators

NonDecreasing(s) == \A i \in 1..(Len(s) - 1) : s[i] <= s[i + 1]

NonIncreasing(s) == \A i \in 1..(Len(s) - 1) : s[i] >= s[i + 1]

QueuesEmpty == \A c \in Cars : elevators[c].jobs.Up = <<>> /\ elevators[c].jobs.Down = <<>>

\* C1: after every goToFloor call every car's Up queue is numerically
\* non-decreasing and its Down queue numerically non-increasing.
C1_QueuesSortedAfterGoToFloor ==
    lastOp = "goToFloor" =>
        \A c \in Cars : /\ NonDecreasing(elevators[c].jobs.Up)
                        /\ NonIncreasing(elevators[c].jobs.Down)

\* C2: every car's currentFloor stays within 1..floorCount in every state
\* reached by calls the system accepted.
C2_CurrentFloorInRange ==
    \A c \in Cars : elevators[c].currentFloor \in 1..floorCount

\* C3: callElevator with a floor outside 1..floorCount raises an error and
\* leaves the pending requests unchanged (only in-range calls are appended).
C3_CallElevatorRejectsOutOfRange ==
    [][\A f \in CallFloors, d \in TravelDirection :
          (CallElevator(f, d) /\ (f < 1 \/ f > floorCount))
              => (raised' /\ requests' = requests)]_vars

\* C4: goToFloor with an unknown car id or a floor outside 1..floorCount
\* raises an error and leaves floors, queues, directions, countdowns, the
\* pending requests and the time unchanged; the call that follows a
\* rejected one is served as usual (a valid one does not raise).
C4_RejectedGoToFloorLeavesState ==
    [][IF lastOp' = "goToFloor"
       THEN \A p \in PressInputs :
                LET rejected == \/ \A i \in Cars : elevators[i].id # p[1]
                                \/ p[2] < 1
                                \/ p[2] > floorCount
                IN /\ (rejected /\ GoToFloor(p[1], p[2]))
                       => (raised' /\ UNCHANGED <<floorCount, elevators, requests, time>>)
                   /\ (raised /\ ~rejected /\ GoToFloor(p[1], p[2]))
                       => (~raised' /\ elevators' = [elevators EXCEPT
                                          ![p[1]] = ElevatorGoToFloor(@, p[2])])
       ELSE ~raised']_vars

\* A goToFloor call was rejected in a system that has a queued job, a
\* pending request and has ticked.
C4_Witness ==
    /\ raised
    /\ lastOp = "goToFloor"
    /\ time > 0
    /\ requests # <<>>
    /\ \E c \in Cars : elevators[c].jobs.Up # <<>>

\* C5: after a car arrives at a queued floor its currentFloor does not
\* change during the next BOARDING_TIME system ticks.
C5_NoMoveAfterArrival ==
    [][\A c \in Cars :
          (time' = time + 1 /\ arrivalPause[c] > 0)
              => elevators'[c].currentFloor = elevators[c].currentFloor]_vars

\* C6: after hold() is called on the car that fulfilled a request its
\* currentFloor does not change during the next BOARDING_TIME system ticks.
C6_NoMoveAfterHold ==
    [][\A c \in Cars :
          (time' = time + 1 /\ holdPause[c] > 0)
              => elevators'[c].currentFloor = elevators[c].currentFloor]_vars

UseCaseRequest == [floor |-> 3, direction |-> "Down"]

\* One car, no in-car press, and callElevator(3, 'Down') the only call.
UseCaseSingleCall == Len(elevators) = 1 /\ pressCount = 0 /\ callCount = 1

\* C7 as stated: with one car and the single call callElevator(3, 'Down'),
\* once the car is at floor 3 at the end of a tick the request is no longer
\* pending.
C7_RemovedInArrivalTick ==
    (UseCaseSingleCall /\ elevators[1].currentFloor = 3)
        => \A i \in 1..Len(requests) : requests[i] # UseCaseRequest

\* C7 amended: with one car and the single call callElevator(3, 'Down'), a
\* tick that starts with the car away from floor 3 keeps the request
\* pending (also when it takes the car to floor 3), and the tick that
\* starts with the car at floor 3 removes it, holds the car
\* (boardingCountdown = BOARDING_TIME) and leaves it at floor 3.
C7_RemovedInTickAfterArrival ==
    [][(UseCaseSingleCall /\ requests = <<UseCaseRequest>> /\ time' = time + 1)
          => IF elevators[1].currentFloor = 3
             THEN /\ requests' = <<>>
                  /\ elevators'[1].boardingCountdown = BOARDING_TIME
                  /\ elevators'[1].currentFloor = 3
             ELSE requests' = requests]_vars

\* The single request of the use case was fulfilled by the car at floor 3.
C7_Witness ==
    /\ UseCaseSingleCall
    /\ lastOp = "tick"
    /\ requests = <<>>
    /\ elevators[1].currentFloor = 3
    /\ holdPause[1] = BOARDING_TIME

\* C8: a car at floor 3 travelling Up with Up queue [5, 9], empty Down
\* queue and boardingCountdown 0 estimates a request (6, Up) strictly lower
\* than a request (6, Down).
C8_DirectionAwarePickup ==
    \A c \in Cars :
        (/\ elevators[c].currentFloor = 3
         /\ elevators[c].travelDirection = "Up"
         /\ elevators[c].jobs.Up = <<5, 9>>
         /\ elevators[c].jobs.Down = <<>>
         /\ elevators[c].boardingCountdown = 0)
            => GetTimeToFulfillRequest(elevators[c], 6, "Up")
                   < GetTimeToFulfillRequest(elevators[c], 6, "Down")

\* C9 as stated: with no pending requests and all job queues empty, ticking
\* leaves every car's currentFloor and travelDirection unchanged.
C9_IdleTickChangesNothing ==
    [][(requests = <<>> /\ QueuesEmpty /\ time' # time)
          => \A c \in Cars :
                 /\ elevators'[c].currentFloor = elevators[c].currentFloor
                 /\ elevators'[c].travelDirection = elevators[c].travelDirection]_vars

\* C9 amended: with no pending requests and all job queues empty, ticking
\* leaves every car's currentFloor unchanged, and its travelDirection
\* unchanged unless the car's boarding countdown expires in one of these
\* ticks, in which case its travelDirection becomes None.
C9_IdleTickKeepsFloor ==
    [][(requests = <<>> /\ QueuesEmpty /\ time' # time)
          => \A c \in Cars :
                 /\ elevators'[c].currentFloor = elevators[c].currentFloor
                 /\ elevators'[c].travelDirection =
                        IF /\ elevators[c].boardingCountdown > 0
                           /\ elevators[c].boardingCountdown <= time' - time
                        THEN "None"
                        ELSE elevators[c].travelDirection]_vars

\* No call was ever made, a car pressed to floor 2 at time 0 arrived there
\* in tick 1 and the tick ending at time 3, run with empty queues, let its
\* countdown expire.
C9_Witness ==
    /\ lastOp = "tick"
    /\ time = 3
    /\ callCount = 0
    /\ QueuesEmpty
    /\ \E c \in Cars : /\ elevators[c].currentFloor = 2
                       /\ elevators[c].travelDirection = "None"
                       /\ elevators[c].boardingCountdown = 0

\* C10: a car's travelDirection changes from Up or Down to another value
\* only when the queue of the direction it leaves is empty.
C10_ReversalOnlyOnExhaustion ==
    [][\A c \in Cars :
          (/\ elevators[c].travelDirection \in TravelDirection
           /\ elevators'[c].travelDirection # elevators[c].travelDirection)
              => elevators[c].jobs[elevators[c].travelDirection] = <<>>]_vars


\* A system tick changes no car and no pending request: since a tick reads
\* nothing else, no later tick changes them either, unless a call is made.
Quiescent ==
    /\ TickOnce(System).elevators = elevators
    /\ TickOnce(System).requests = requests

\* C11: every floor accepted by goToFloor is eventually served when ticks
\* continue; so once ticking no longer changes anything, all job queues
\* are empty.
C11_JobsServedWhenTicksSettle == Quiescent => QueuesEmpty

\* C12: every pending request for a floor of the building is eventually
\* served when ticks continue and no further call is made: with every call
\* made by time ServeDeadline, no request is pending at time ServeHorizon.
C12_RequestsServedByHorizon == time = ServeHorizon => requests = <<>>

\* At the horizon nothing is pending although a call was made, a floor was
\* pressed and a car was drawn to floor 3, where only a call leads.
C12_Witness ==
    /\ time = ServeHorizon
    /\ callCount >= 1
    /\ pressCount >= 1
    /\ requests = <<>>
    /\ \E c \in Cars : elevators[c].currentFloor = 3

\* The iterations of the matching pass of the system tick that would follow
\* the current state.
TickLog == TickOnce(System).log

\* The cars after Car.tick has run on each of them.
Ticked == [i \in Cars |-> ElevatorTick(elevators[i])]

\* The estimate of car i of els for the request.
Estimate(els, i, request) ==
    GetTimeToFulfillRequest(els[i], request.floor, request.direction)

\* Two idle cars at floor 1 and a single call at floor 5.
TieBreakExample ==
    [elevators |-> <<NewElevator(1, 1), NewElevator(2, 1)>>,
     requests |-> <<[floor |-> 5, direction |-> "Up"]>>,
     time |-> 0, arrivalPause |-> <<0, 0>>, holdPause |-> <<0, 0>>]

\* The cars of TieBreakExample after one system tick.
TieBreakResult == TickOnce(TieBreakExample).elevators

\* C13: in every iteration of the matching pass the chosen car has the
\* least estimate and no car before it in construction order has the same
\* estimate; with two idle cars at floor 1 and one call at another floor
\* (such as 5) only the first car is nudged.
C13_MinimumEstimateFirstCarWins ==
    LET t == TickOnce(System)
        log == t.log
    IN /\ \A k \in DOMAIN log :
              LET won == Estimate(log[k].before, log[k].winner, log[k].request)
              IN \A j \in DOMAIN log[k].before :
                     /\ won <= Estimate(log[k].before, j, log[k].request)
                     /\ j < log[k].winner
                            => won < Estimate(log[k].before, j, log[k].request)
       /\ (/\ Len(elevators) = 2
           /\ Len(requests) = 1
           /\ requests[1].floor # 1
           /\ \A c \in Cars : /\ elevators[c].currentFloor = 1
                              /\ elevators[c].travelDirection = "None")
              => /\ t.elevators[1].currentFloor # 1
                 /\ t.elevators[2].currentFloor = 1
       /\ TieBreakResult[1].currentFloor = 2
       /\ TieBreakResult[2].currentFloor = 1

\* Two idle cars stood at floor 1 with one call at floor 3 pending, and the
\* tick nudged the first car only.
C13_Witness ==
    /\ lastOp = "tick"
    /\ time = 1
    /\ pressCount = 0
    /\ Len(elevators) = 2
    /\ Len(requests) = 1
    /\ requests[1].floor = 3
    /\ elevators[1].currentFloor = 2
    /\ elevators[2].currentFloor = 1

\* Floors an estimate is asked for.
EstimateFloors == 1..NUMBER_OF_FLOORS

\* C14: for an idle car getTimeToFulfillRequest(F, d) is |F - currentFloor|
\* for either direction and any boardingCountdown, hence 0 at floor F.
C14_IdleEstimateIsDistance ==
    \A c \in Cars :
        elevators[c].travelDirection = "None"
            => \A f \in EstimateFloors, d \in TravelDirection :
                   GetTimeToFulfillRequest(elevators[c], f, d)
                       = Abs(f - elevators[c].currentFloor)

\* An idle car stands at floor 3 during the pause that followed hold().
C14_Witness ==
    \E c \in Cars :
        /\ elevators[c].travelDirection = "None"
        /\ elevators[c].boardingCountdown > 0
        /\ elevators[c].currentFloor = 3
        /\ GetTimeToFulfillRequest(elevators[c], 3, "Down") = 0
        /\ GetTimeToFulfillRequest(elevators[c], 9, "Up") = 6

\* C15: fromSavedState(S.currentState) has the floorCount, time, pending
\* requests and per-car {id, floor} list of S, every restored car is idle
\* with empty job queues and boardingCountdown 0, and the currentState of
\* the restored system equals the snapshot.
C15_SnapshotRoundTrip ==
    [][lastOp' = "fromSavedState"
          => /\ floorCount' = floorCount
             /\ time' = time
             /\ requests' = requests
             /\ Len(elevators') = Len(elevators)
             /\ \A c \in Cars :
                    /\ elevators'[c].id = elevators[c].id
                    /\ elevators'[c].currentFloor = elevators[c].currentFloor
                    /\ elevators'[c].travelDirection = "None"
                    /\ elevators'[c].jobs = [Up |-> <<>>, Down |-> <<>>]
                    /\ elevators'[c].boardingCountdown = 0
             /\ CurrentState(System)' = CurrentState(System)]_vars

\* A system that has ticked, holds a pending request and had a floor
\* pressed was restored from its snapshot with a car away from floor 1.
C15_Witness ==
    /\ lastOp = "fromSavedState"
    /\ time > 0
    /\ requests # <<>>
    /\ pressCount >= 1
    /\ \E c \in Cars : elevators[c].currentFloor > 1

\* TRUE iff floor f lies in the closed interval between floors a and b.
Between(f, a, b) == Min(a, b) <= f /\ f <= Max(a, b)

\* C16: for a car travelling in direction D with a queued stop of that
\* direction, a request of direction D for a floor in the closed interval
\* between currentFloor and the first stop of direction D is estimated at
\* boardingCountdown + |toFloor - currentFloor|.
C16_PickupOnTheWay ==
    \A c \in Cars :
        (/\ elevators[c].travelDirection \in TravelDirection
         /\ elevators[c].jobs[elevators[c].travelDirection] # <<>>)
            => \A f \in EstimateFloors :
                   Between(f, elevators[c].currentFloor,
                           elevators[c].jobs[elevators[c].travelDirection][1])
                       => GetTimeToFulfillRequest(elevators[c], f,
                                                  elevators[c].travelDirection)
                              = elevators[c].boardingCountdown
                                    + Abs(f - elevators[c].currentFloor)

\* The sum of the distances between consecutive floors of stops.
RECURSIVE SweepDistance(_)
SweepDistance(stops) ==
    IF Len(stops) < 2 THEN 0
    ELSE Abs(stops[1] - stops[2]) + SweepDistance(Tail(stops))

\* TRUE iff floor f lies between two consecutive floors of stops.
OnTheWay(f, stops) ==
    \E i \in 1..(Len(stops) - 1) : Between(f, stops[i], stops[i + 1])

\* The simulated stops of the sweep of the current direction of car e, and
\* of the sweep of the opposite direction that follows it.
CurrentSweep(e) == <<e.currentFloor>> \o e.jobs[e.travelDirection]

OppositeSweep(e) ==
    <<LastStopForDirection(e, e.travelDirection)>>
        \o e.jobs[OtherDirection(e.travelDirection)]

\* TRUE iff the sweep of direction d of car e passes floor f.
OffersPickup(e, f, d) ==
    IF d = e.travelDirection THEN OnTheWay(f, CurrentSweep(e))
    ELSE OnTheWay(f, OppositeSweep(e))

\* The fallback estimate as C17 states it.
StatedFallback(e, f) ==
    e.boardingCountdown
        + SweepDistance(CurrentSweep(e)) + SweepDistance(OppositeSweep(e))
        + BOARDING_TIME * (Len(e.jobs.Up) + Len(e.jobs.Down))
        + Abs(f - OppositeSweep(e)[Len(OppositeSweep(e))])

\* C17: for a non-idle car and a request that neither sweep offers a pickup
\* for, the estimate is boardingCountdown + the distances between the
\* consecutive simulated stops of both sweeps + BOARDING_TIME per queued
\* stop + the distance from the last simulated stop to toFloor.
C17_FallbackEstimate ==
    \A c \in Cars :
        elevators[c].travelDirection \in TravelDirection
            => \A f \in EstimateFloors, d \in TravelDirection :
                   ~OffersPickup(elevators[c], f, d)
                       => GetTimeToFulfillRequest(elevators[c], f, d)
                              = StatedFallback(elevators[c], f)

\* C18: a non-idle car never yields estimate 0 for a request whose direction
\* differs from its travelDirection, also at the requested floor, and no
\* request is fulfilled by such a car.
C18_NoFulfilmentAgainstDirection ==
    /\ \A c \in Cars :
           elevators[c].travelDirection \in TravelDirection
               => \A f \in EstimateFloors \cup {elevators[c].currentFloor} :
                      GetTimeToFulfillRequest(elevators[c], f,
                          OtherDirection(elevators[c].travelDirection)) # 0
    /\ LET log == TickLog
       IN \A k \in DOMAIN log :
              log[k].removed
                  => log[k].before[log[k].winner].travelDirection
                         \in {"None", log[k].request.direction}

\* After a tick a travelling car is at a floor for which a request of the
\* opposite direction is pending.
C18_Witness ==
    /\ lastOp = "tick"
    /\ \E c \in Cars, k \in DOMAIN requests :
           /\ elevators[c].travelDirection \in TravelDirection
           /\ requests[k].floor = elevators[c].currentFloor
           /\ requests[k].direction # elevators[c].travelDirection

\* The least estimate of the cars els for the request.
MinEstimate(els, request) ==
    CHOOSE m \in {Estimate(els, i, request) : i \in DOMAIN els} :
        \A i \in DOMAIN els : m <= Estimate(els, i, request)

\* The requests reqs from index k on that the iterations of log kept.
RECURSIVE KeptRequests(_, _, _)
KeptRequests(reqs, log, k) ==
    IF k > Len(reqs) THEN <<>>
    ELSE (IF log[k].removed THEN <<>> ELSE <<reqs[k]>>) \o KeptRequests(reqs, log, k + 1)

\* C19: in the matching pass a request is removed iff the least estimate
\* over all cars, taken when the request is evaluated, is 0, and then the
\* winning car is held: its boardingCountdown is BOARDING_TIME at the end of
\* the tick. No other operation removes a request.
C19_RemovedIffMinimumEstimateZero ==
    [][/\ time' = time
           => /\ Len(requests') >= Len(requests)
              /\ SubSeq(requests', 1, Len(requests)) = requests
       /\ time' = time + 1
           => LET log == TickLog
              IN /\ Len(log) = Len(requests)
                 /\ \A k \in DOMAIN log :
                        /\ log[k].request = requests[k]
                        /\ log[k].removed
                               <=> MinEstimate(log[k].before, log[k].request) = 0
                        /\ log[k].removed
                               => elevators'[log[k].winner].boardingCountdown
                                      = BOARDING_TIME
                 /\ requests' = KeptRequests(requests, log, 1)]_vars

\* Of two calls one was fulfilled in the last tick and the other is still
\* pending; the car that fulfilled it is held.
C19_Witness ==
    /\ lastOp = "tick"
    /\ callCount = 2
    /\ Len(requests) = 1
    /\ \E c \in Cars : /\ holdPause[c] = BOARDING_TIME
                       /\ elevators[c].boardingCountdown = BOARDING_TIME

\* C20: whenever a pending request for floor F is removed during a tick,
\* the winning car is at floor F at that moment.
C20_FulfilledAtRequestedFloor ==
    LET log == TickLog
    IN \A k \in DOMAIN log :
           log[k].removed
               => log[k].before[log[k].winner].currentFloor = log[k].request.floor

\* The tick about to run fulfils a request by the second car, which was
\* nudged to floor 3 while the first car was busy.
C20_Witness ==
    /\ time < MaxTime
    /\ elevators[1].travelDirection \in TravelDirection
    /\ LET log == TickLog
       IN \E k \in DOMAIN log :
              log[k].removed /\ log[k].winner = 2 /\ log[k].request.floor = 3

\* The number of iterations of log that changed the floor of car c.
RECURSIVE NudgeCount(_, _, _)
NudgeCount(log, c, k) ==
    IF k > Len(log) THEN 0
    ELSE (IF log[k].after[c].currentFloor # log[k].before[c].currentFloor THEN 1 ELSE 0)
             + NudgeCount(log, c, k + 1)

\* C21: within one system tick each car's currentFloor changes by at most
\* one floor, a car that moved in its own Car.tick is not nudged in that
\* tick, and a car is nudged at most once per tick.
C21_NoDoubleMove ==
    LET t == TickOnce(System)
    IN \A c \in Cars :
           LET nudges == NudgeCount(t.log, c, 1)
           IN /\ Abs(t.elevators[c].currentFloor - elevators[c].currentFloor) <= 1
              /\ Ticked[c].currentFloor # elevators[c].currentFloor => nudges = 0
              /\ nudges <= 1

\* The tick about to run evaluates two requests with the same idle car as
\* the best one: it nudges the car for the first and, the car being away
\* from the floor of the second, would have to move it again.
C21_Witness ==
    /\ time < MaxTime
    /\ LET log == TickLog
       IN /\ Len(log) = 2
          /\ log[1].winner = log[2].winner
          /\ NudgeCount(log, log[1].winner, 1) = 1
          /\ log[2].before[log[2].winner].travelDirection = "None"
          /\ log[2].before[log[2].winner].currentFloor # log[2].request.floor

\* C22: a system tick advances the time by one, runs Car.tick on every car
\* and then the matching pass: the first request is evaluated on the cars
\* as Car.tick left them, every later one on the cars as the iteration
\* before left them, and a request is removed iff the estimate of the best
\* car on those cars is 0.
C22_MatchingSeesTickedCars ==
    LET t == TickOnce(System)
        log == t.log
    IN /\ t.time = time + 1
       /\ Len(log) > 0 => log[1].before = Ticked
       /\ \A k \in 1..(Len(log) - 1) : log[k + 1].before = log[k].after
       /\ \A k \in DOMAIN log :
              log[k].removed <=> Estimate(log[k].before, log[k].winner, log[k].request) = 0

\* The tick about to run evaluates a request with an estimate of the best
\* car that differs from the estimate of that car before its Car.tick.
C22_Witness ==
    /\ time < MaxTime
    /\ LET log == TickLog
       IN \E k \in DOMAIN log :
              Estimate(log[k].before, log[k].winner, log[k].request)
                  # Estimate(elevators, log[k].winner, log[k].request)

\* C23: the matching pass evaluates every request pending at its start
\* exactly once, in order, also after a removal, and the requests it does
\* not fulfil stay pending in their order.
C23_EveryRequestEvaluatedOnce ==
    LET t == TickOnce(System)
        log == t.log
    IN /\ Len(log) = Len(requests)
       /\ \A k \in DOMAIN log : log[k].request = requests[k]
       /\ t.requests = KeptRequests(requests, log, 1)

\* The tick about to run fulfils the first of two pending requests and
\* keeps the second, which follows the removed one.
C23_Witness ==
    /\ time < MaxTime
    /\ Len(requests) = 2
    /\ requests[1] # requests[2]
    /\ LET log == TickLog
       IN log[1].removed /\ ~log[2].removed

\* C24: a car that fulfilled a request in a tick is not nudged toward
\* another pending request later in the matching pass of that tick.
C24_FulfillingCarNotNudgedLater ==
    LET log == TickLog
    IN \A k \in DOMAIN log :
           log[k].removed
               => \A m \in (k + 1)..Len(log) :
                      log[m].after[log[k].winner].currentFloor
                          = log[k].before[log[k].winner].currentFloor

\* The tick about to run fulfils the first request by an idle car that is
\* also the best car for the second request, pending for another floor.
C24_Witness ==
    /\ time < MaxTime
    /\ LET log == TickLog
       IN /\ Len(log) = 2
          /\ log[1].removed
          /\ log[2].winner = log[1].winner
          /\ log[2].before[log[2].winner].travelDirection = "None"
          /\ log[2].request.floor # log[1].request.floor

\* The number of entries of the sequence s equal to x.
Count(s, x) == Cardinality({i \in DOMAIN s : s[i] = x})

\* TRUE iff the queue after holds the entries of the queue before and one
\* more entry f.
QueuedIn(before, after, f) ==
    /\ Len(after) = Len(before) + 1
    /\ \A x \in {before[i] : i \in DOMAIN before} \cup {f} :
           Count(after, x) = Count(before, x) + (IF x = f THEN 1 ELSE 0)

\* What C25 says of the car e and the car r that goToFloor(f) made of it.
GoToFloorAsStated(e, r, f) ==
    /\ r.id = e.id
    /\ r.currentFloor = e.currentFloor
    /\ r.boardingCountdown = e.boardingCountdown
    /\ IF f = e.currentFloor /\ e.travelDirection = "None" THEN r = e
       ELSE LET direction == IF f = e.currentFloor THEN e.travelDirection
                             ELSE IF f > e.currentFloor THEN "Up" ELSE "Down"
            IN /\ QueuedIn(e.jobs[direction], r.jobs[direction], f)
               /\ r.jobs[OtherDirection(direction)] = e.jobs[OtherDirection(direction)]
               /\ r.travelDirection = IF e.travelDirection = "None" THEN direction
                                      ELSE e.travelDirection

\* C25: Elevator.goToFloor(f) with f in range leaves an idle car at floor f
\* unchanged, queues f in the travel direction of a travelling car at
\* floor f, and otherwise queues f in Up when f > currentFloor and in Down
\* when f < currentFloor; an idle car takes that direction, a travelling
\* car keeps its own; currentFloor and boardingCountdown never change.
C25_GoToFloorQueuesByDirection ==
    \A c \in Cars, f \in EstimateFloors :
        GoToFloorAsStated(elevators[c], ElevatorGoToFloor(elevators[c], f), f)

\* A travelling car had its own floor pressed and queued it in its travel
\* direction.
C25_Witness ==
    /\ lastOp = "goToFloor"
    /\ ~raised
    /\ \E c \in Cars :
           /\ elevators[c].travelDirection \in TravelDirection
           /\ elevators[c].boardingCountdown > 0
           /\ Count(elevators[c].jobs[elevators[c].travelDirection],
                    elevators[c].currentFloor) = 1

\* Floors a nudge is asked for: the floors of calls and of the building.
NudgeFloors == EstimateFloors \cup CallFloors

\* C26: moveCloserToFloor(f) changes a car only when its travelDirection is
\* None and f differs from its currentFloor; it then moves currentFloor one
\* floor toward f and leaves the job queues, boardingCountdown and
\* travelDirection as they are. An iteration of the matching pass changes
\* no car but the best one, and of that only the countdown (hold) and the
\* floor (nudge).
C26_NudgeMovesIdleCarOneFloor ==
    /\ \A c \in Cars, f \in NudgeFloors :
           MoveCloserToFloor(elevators[c], f)
               = IF elevators[c].travelDirection = "None" /\ f # elevators[c].currentFloor
                 THEN [elevators[c] EXCEPT
                          !.currentFloor = IF f > @ THEN @ + 1 ELSE @ - 1]
                 ELSE elevators[c]
    /\ LET log == TickLog
       IN \A k \in DOMAIN log, c \in Cars :
              IF c = log[k].winner
              THEN log[k].after[c]
                       \in {[log[k].before[c] EXCEPT !.boardingCountdown = b,
                                                      !.currentFloor = @ + n] :
                               b \in {log[k].before[c].boardingCountdown, BOARDING_TIME},
                               n \in {-1, 0, 1}}
              ELSE log[k].after[c] = log[k].before[c]

\* An idle car in the pause that followed hold() was nudged from floor 1 to
\* floor 2 toward a pending request, its countdown running on.
C26_Witness ==
    /\ lastOp = "tick"
    /\ requests # <<>>
    /\ \E c \in Cars :
           /\ elevators[c].travelDirection = "None"
           /\ elevators[c].currentFloor = 2
           /\ elevators[c].boardingCountdown = 1
           /\ holdPause[c] = 1

\* C27: callElevator with a floor of the building appends exactly one
\* request {floor, direction} at the end of the pending requests and changes
\* no car and not the time.
C27_CallAppendsOneRequest ==
    [][lastOp' = "callElevator"
          => /\ \E f \in 1..floorCount, d \in TravelDirection :
                    requests' = Append(requests, [floor |-> f, direction |-> d])
             /\ elevators' = elevators
             /\ time' = time
             /\ floorCount' = floorCount]_vars

\* A second, different call was made after a tick that nudged a car for
\* the first.
C27_Witness ==
    /\ lastOp = "callElevator"
    /\ time > 0
    /\ Len(requests) = 2
    /\ requests[1] # requests[2]
    /\ \E c \in Cars : elevators[c].currentFloor > 1

\* C28: ElevatorSystem.goToFloor(carId, floor) changes only the job queues
\* and the travelDirection of the addressed car: the pending requests, the
\* time and every other car stay as they are.
C28_PressChangesAddressedCarOnly ==
    [][lastOp' = "goToFloor"
          => /\ requests' = requests
             /\ time' = time
             /\ floorCount' = floorCount
             /\ \A p \in PressInputs :
                    GoToFloor(p[1], p[2])
                        => \A c \in Cars :
                               IF elevators[c].id = p[1]
                               THEN /\ elevators'[c].id = elevators[c].id
                                    /\ elevators'[c].currentFloor = elevators[c].currentFloor
                                    /\ elevators'[c].boardingCountdown
                                           = elevators[c].boardingCountdown
                               ELSE elevators'[c] = elevators[c]]_vars

\* With a request pending and after a tick, a floor was pressed in the
\* second of two cars and queued there, the first car having no job.
C28_Witness ==
    /\ lastOp = "goToFloor"
    /\ ~raised
    /\ time > 0
    /\ requests # <<>>
    /\ Len(elevators) = 2
    /\ elevators[2].jobs.Up # <<>>
    /\ elevators[1].jobs = [Up |-> <<>>, Down |-> <<>>]

\* C29: time starts at 0, tick(n) adds exactly n to it, callElevator and
\* goToFloor leave it unchanged, and it never decreases.
C29_TimeCountsTicks ==
    /\ time = 0
    /\ [][/\ \A n \in TickArgs : Tick(n) => time' = time + n
          /\ lastOp' = "tick" => time' - time \in TickArgs
          /\ lastOp' \in {"callElevator", "goToFloor"} => time' = time
          /\ time' >= time]_vars

\* Ticks took the time to its bound with calls made in between.
C29_Witness ==
    /\ lastOp = "tick"
    /\ time = MaxTime
    /\ callCount >= 1
    /\ pressCount >= 1

\* TRUE iff the queue after is the queue before without its leading entries
\* equal to floor, of which there is at least one.
HeadRemoved(before, after, floor) ==
    \E k \in 1..Len(before) :
        /\ after = SubSeq(before, k + 1, Len(before))
        /\ \A j \in 1..k : before[j] = floor
        /\ Len(after) > 0 => after[1] # floor

\* TRUE iff the queue after is the queue before without some of its first
\* entries.
IsSuffix(before, after) ==
    \E k \in 0..Len(before) : after = SubSeq(before, k + 1, Len(before))

\* C30: a job leaves a queue only in Car.tick, only from the head of the queue
\* of the car's travel direction, and only when the car stands at that job's
\* floor; the tick then removes every leading entry equal to currentFloor and
\* sets boardingCountdown to BOARDING_TIME.
C30_JobsRemovedOnArrivalOnly ==
    [][LET ticked == Ticked
       IN /\ \A c \in Cars : \A d \in TravelDirection :
                 LET before == elevators[c].jobs[d]
                     after == ticked[c].jobs[d]
                 IN /\ after # before =>
                           /\ d = elevators[c].travelDirection
                           /\ HeadRemoved(before, after, ticked[c].currentFloor)
                           /\ ticked[c].boardingCountdown = BOARDING_TIME
                    /\ (/\ d = elevators[c].travelDirection
                        /\ elevators[c].boardingCountdown = 0
                        /\ Len(before) > 0
                        /\ before[1] = ticked[c].currentFloor) =>
                           HeadRemoved(before, after, ticked[c].currentFloor)
          /\ time' = time =>
                 \A c \in Cars : \A d \in TravelDirection :
                     \A f \in {elevators[c].jobs[d][i] : i \in DOMAIN elevators[c].jobs[d]} :
                         Count(elevators'[c].jobs[d], f) >= Count(elevators[c].jobs[d], f)
          /\ time' > time =>
                 \A c \in Cars : \A d \in TravelDirection :
                     IsSuffix(elevators[c].jobs[d], elevators'[c].jobs[d])
          /\ time' = time + 1 =>
                 \A c \in Cars :
                     /\ elevators'[c].jobs = ticked[c].jobs
                     /\ ticked[c].jobs # elevators[c].jobs =>
                            /\ elevators'[c].boardingCountdown = BOARDING_TIME
                            /\ elevators'[c].currentFloor = ticked[c].currentFloor]_vars

\* The only car was sent to floor 2 twice and one tick took it there: both
\* entries are gone and the boarding countdown runs.
C30_Witness ==
    /\ lastOp = "tick"
    /\ time = 1
    /\ pressCount = 2
    /\ Len(elevators) = 1
    /\ elevators[1].currentFloor = 2
    /\ elevators[1].jobs["Up"] = <<>>
    /\ elevators[1].jobs["Down"] = <<>>
    /\ elevators[1].boardingCountdown = BOARDING_TIME

\* C31: in every state reachable from a freshly constructed system a car
\* whose travelDirection is Up or Down and whose boardingCountdown is 0 has
\* a non-empty queue for its travelDirection.
C31_TravellingCarHasNextStop ==
    \A c \in Cars :
        (/\ elevators[c].travelDirection \in TravelDirection
         /\ elevators[c].boardingCountdown = 0)
            => Len(elevators[c].jobs[elevators[c].travelDirection]) > 0

\* A car on its way up to floor 5 had floor 2 pressed at floor 3; it stopped
\* at floor 5, its boarding pause ran out and it now travels down with
\* floor 2 as its next stop.
C31_Witness ==
    /\ lastOp = "tick"
    /\ pressCount = 2
    /\ \E c \in Cars :
           /\ elevators[c].travelDirection = "Down"
           /\ elevators[c].boardingCountdown = 0
           /\ elevators[c].currentFloor = 5
           /\ elevators[c].jobs["Up"] = <<>>
           /\ elevators[c].jobs["Down"] = <<2>>

====
